---- MODULE Spec2Model ----
(***************************************************************************)
(* k8s-object-dumper: the discovery-and-paginated-dump pipeline.           *)
(*                                                                         *)
(* Two drivers exist in the repository: discovery.DiscoverObjects          *)
(* (discovery.go:42-99) and the earlier main.dumpObjects                   *)
(* (discovery.go:277-334).  Both walk the discovered resource types, skip  *)
(* those without the "list" verb and page through the others with a        *)
(* limit/continue cursor, handing every page to a sink callback.  The      *)
(* fan-out sink is dirDumper (discovery.go:345-442).                       *)
(*                                                                         *)
(* The remote API server is the environment: a list call either fails or   *)
(* returns the next at most `limit` objects of the collection and a        *)
(* continue token, empty when the collection is exhausted.                 *)
(***************************************************************************)
EXTENDS Integers, Sequences, FiniteSets, TLC

----------------------------------------------------------------------------
(* Bounds of the model *)

\* number of resource types returned by ServerPreferredResources
MaxTypes == 2
\* largest collection size of a resource type (beside the large one below)
MaxN == 3
\* largest configured batch size (beside 0 = unset and -1 = negative)
MaxBatch == 2
\* how many list calls / sink invocations the environment lets fail in a run
MaxFaults == 2

\* objects in the collection of the namespaced kind the sink is fed pages of
MaxObjs == 2
\* calls (Dump or Close) made on one fan-out sink
MaxOps == 2
\* how many encodes, file creations, writes and closes the environment lets
\* fail on one sink
MaxSinkFaults == 1

\* GetBatchSize's default (discovery.go:27)
DefaultBatchSize == 500

\* a collection that needs three pages at the default batch size
LargeN == 2 * DefaultBatchSize + 200

\* cap of the call history, so that a driver that never leaves a type's loop
\* still has finitely many states
MaxCalls == MaxTypes * (MaxN + 1) + MaxFaults + 2

----------------------------------------------------------------------------
VARIABLES
    \* ---- inputs of one run
    sprl,          \* ServerPreferredResources flattened in iteration order:
                   \* sequence of [Name, Verbs, N] (N: objects on the remote)
    optBatchSize,  \* opts.BatchSize / the batchSize flag
    \* ---- driver (DiscoverObjects / dumpObjects)
    pc,            \* "start", "next" (head of the type loop), "list", "done"
    idx,           \* index into sprl of the type at hand
    continueKey,   \* the local continueKey
    errors,        \* the local errors slice
    ret,           \* the returned error: sequence of entries, <<>> is nil
    logWriter,     \* lines written to the diagnostic stream
    \* ---- history of the run
    calls,         \* list calls issued: [res, limit, cont, ok, next, n, cb]
    sunk,          \* sink invocations: [res, items, ok]
    faults,        \* failures injected so far
    \* ---- fan-out sink (dirDumper)
    openFiles,     \* d.openFiles: path -> handle (index into handles)
    handles,       \* every *os.File the sink obtained from os.Create:
                   \* [path, closed, closeCalls]
    disk,          \* content of the file at each path: sequence of chunks
    sinkLog,       \* calls made on the sink and what they returned:
                   \* [op, page, plan, pre, open, err], with the failures
                   \* injected (plan), the disk (pre) and the cached paths
                   \* (open) before the call
    sinkFaults,    \* failures injected into the sink so far
    \* ---- the process (main) and the driver's surroundings
    dir,           \* main: the dir flag, "" when not given
    confOk,        \* main: ctrl.GetConfig() returned a config
    exitCode,      \* exit status of the process, -1 while it runs
    stderr,        \* lines main (or the runtime) wrote to os.Stderr
    ctxDone,       \* the ctx given to DiscoverObjects has been cancelled
    down,          \* resource types whose list calls fail every time
    gvIn,          \* groupVersionFromString: the argument, a sequence of
                   \* characters
    gvOut          \* groupVersionFromString: the result, <<>> before the call

driverVars == <<pc, idx, continueKey, errors, ret, logWriter>>
inputVars == <<sprl, optBatchSize>>
histVars == <<calls, sunk, faults>>
sinkVars == <<openFiles, handles, disk, sinkLog, sinkFaults>>
mainVars == <<dir, confOk, exitCode, stderr>>
gvVars == <<gvIn, gvOut>>
outerVars == <<dir, confOk, exitCode, stderr, ctxDone, down, gvIn, gvOut>>
vars == <<sprl, optBatchSize, pc, idx, continueKey, errors, ret, logWriter,
          calls, sunk, faults, openFiles, handles, disk, sinkLog, sinkFaults,
          dir, confOk, exitCode, stderr, ctxDone, down, gvIn, gvOut>>

----------------------------------------------------------------------------
(* Values *)

Min(a, b) == IF a < b THEN a ELSE b

\* the empty continue token ""
NoCursor == [res |-> 0, off |-> 0]
\* a non-empty continue token of the remote: resumes `res` after `off` objects
Token(res, off) == [res |-> res, off |-> off]

VerbSets == {{"get"}, {"get", "list"}}
Sizes == 0 .. MaxN
BatchSizes == -1 .. MaxBatch

\* error values
ListErr(res) == [op |-> "failed to list", res |-> res]
DumpErr(res) == [op |-> "failed to dump", res |-> res]
PreErr(what) == [op |-> what, res |-> 0]
NilErr == [op |-> "nil", res |-> 0]

\* diagnostic lines
Line(msg, res) == [msg |-> msg, res |-> res]

----------------------------------------------------------------------------
(* Pure functions of the code *)

\* DiscoveryOptions.GetBatchSize
GetBatchSize(b) == IF b = 0 THEN DefaultBatchSize ELSE b

\* multierr.Combine: drops nil entries; nil (<<>>) when nothing is left
Combine(errs) == SelectSeq(errs, LAMBDA e : e # NilErr)

\* mutant of Listable: the verbs are not looked at
Listable_always(r) == TRUE

\* slices.Contains(r.Verbs, "list")
Listable(r) == "list" \in r.Verbs

\* mutant of ContinueAfterPage: a failed sink call ends the type's pagination
ContinueAfterPage_stopOnSinkError(l, cbOk) == cbOk /\ l.continue # NoCursor

\* DiscoverObjects, lines 87-93: after cb(l), whatever it returned, the loop
\* goes on exactly when the page's continue token is non-empty
ContinueAfterPage(l, cbOk) == l.continue # NoCursor

\* mutant of NextContinueKey: the cursor is not advanced
NextContinueKey_stale(l, old) == old

\* DiscoverObjects, line 93: continueKey = l.GetContinue()
NextContinueKey(l, old) == l.continue

----------------------------------------------------------------------------
(* The remote: dynClient.Resource(res).List(ctx, {Limit, Continue}) when it
   succeeds. A limit <= 0 means no limit. *)
RemoteList(r, limit, cont) ==
    LET start == IF cont = NoCursor THEN 0 ELSE cont.off
        end   == IF limit <= 0 THEN r.N ELSE Min(start + limit, r.N)
        cnt   == IF end > start THEN end - start ELSE 0
    IN  [items    |-> [i \in 1 .. cnt |-> start + i],
         continue |-> IF end < r.N THEN Token(r.Name, end) ELSE NoCursor]

----------------------------------------------------------------------------
(* Initial states *)

ResourceType(i, verbs, n) == [Name |-> i, Verbs |-> verbs, N |-> n]

InitInputs ==
    \/ /\ optBatchSize \in BatchSizes
       /\ \E k \in 1 .. MaxTypes :
            \E vs \in [1 .. k -> VerbSets], ns \in [1 .. k -> Sizes] :
                sprl = [i \in 1 .. k |-> ResourceType(i, vs[i], ns[i])]
    \* the large collection, listed at the default batch size
    \/ /\ optBatchSize \in {0, DefaultBatchSize}
       /\ \E n \in {LargeN, 2 * DefaultBatchSize} :
            sprl = <<ResourceType(1, {"get", "list"}, n)>>

InitDriver ==
    /\ pc = "start"
    /\ idx = 1
    /\ continueKey = NoCursor
    /\ errors = <<>>
    /\ ret = <<>>
    /\ logWriter = <<>>
    /\ calls = <<>>
    /\ sunk = <<>>
    /\ faults = 0

\* the driver's sink is the callback cb; the fan-out sink is not in play
NoSink ==
    /\ openFiles = <<>>
    /\ handles = <<>>
    /\ disk = <<>>
    /\ sinkLog = <<>>
    /\ sinkFaults = 0

\* DiscoverObjects called as a library function: no process around it, a ctx
\* that is not cancelled, no resource type that is down
NoMain ==
    /\ dir = ""
    /\ confOk = TRUE
    /\ exitCode = -1
    /\ stderr = <<>>
    /\ ctxDone = FALSE
    /\ down = {}

\* groupVersionFromString is not under study
NoGroupVersion ==
    /\ gvIn = <<>>
    /\ gvOut = <<>>

NoOuter == NoMain /\ NoGroupVersion

Init == InitInputs /\ InitDriver /\ NoSink /\ NoOuter

----------------------------------------------------------------------------
(* discovery.DiscoverObjects, discovery.go:42-99 *)

\* lines 46-58: a client cannot be built or the capability query fails
DiscoverObjects_PreconditionFails ==
    /\ pc = "start"
    /\ \E what \in {"failed to create discovery client",
                     "failed to create dynamic client",
                     "failed to get server preferred resources"} :
            ret' = <<PreErr(what)>>
    /\ pc' = "done"
    /\ UNCHANGED <<inputVars, outerVars, sinkVars, idx, continueKey, errors, logWriter, histVars>>

\* lines 46-66: the capability query succeeds; the listing is written
DiscoverObjects_Discover ==
    /\ pc = "start"
    /\ logWriter' = <<Line("Discovered resources:", 0)>>
                      \o [i \in 1 .. Len(sprl) |-> Line("kind", sprl[i].Name)]
    /\ pc' = "next"
    /\ UNCHANGED <<inputVars, outerVars, sinkVars, idx, continueKey, errors, ret, histVars>>

\* lines 72-75: a type without the list verb is skipped with a notice
DiscoverObjects_Skip ==
    /\ pc = "next"
    /\ idx <= Len(sprl)
    /\ ~Listable(sprl[idx])
    /\ logWriter' = Append(logWriter, Line("skipping: no list verb", sprl[idx].Name))
    /\ idx' = idx + 1
    /\ UNCHANGED <<inputVars, outerVars, sinkVars, pc, continueKey, errors, ret, histVars>>

\* the type loop with continueKey declared outside it: the key of the previous
\* type is carried into the next one
DiscoverObjects_EnterType_keepsKey ==
    /\ pc = "next"
    /\ idx <= Len(sprl)
    /\ Listable(sprl[idx])
    /\ pc' = "list"
    /\ UNCHANGED <<inputVars, outerVars, sinkVars, idx, continueKey, errors, ret,
                   logWriter, histVars>>

\* lines 72, 77: a listable type starts with the empty continue key
DiscoverObjects_EnterType ==
    /\ pc = "next"
    /\ idx <= Len(sprl)
    /\ Listable(sprl[idx])
    /\ continueKey' = NoCursor
    /\ pc' = "list"
    /\ UNCHANGED <<inputVars, outerVars, sinkVars, idx, errors, ret, logWriter, histVars>>

\* lines 79-86: the list call fails: one error, break
DiscoverObjects_ListFails ==
    /\ pc = "list"
    /\ faults < MaxFaults
    /\ Len(calls) < MaxCalls
    /\ LET r == sprl[idx]
           limit == GetBatchSize(optBatchSize)
       IN  /\ calls' = Append(calls, [res |-> r.Name, limit |-> limit,
                                      cont |-> continueKey, ok |-> FALSE,
                                      next |-> NoCursor, n |-> 0,
                                      cb |-> "none"])
           /\ errors' = Append(errors, ListErr(r.Name))
    /\ faults' = faults + 1
    /\ pc' = "next"
    /\ idx' = idx + 1
    /\ UNCHANGED <<inputVars, outerVars, sinkVars, continueKey, ret, logWriter, sunk>>

\* lines 79-93: the list call succeeds; the page goes to the callback, whose
\* failure is recorded; the loop ends on an empty continue token
DiscoverObjects_ListPage ==
    /\ pc = "list"
    /\ Len(calls) < MaxCalls
    /\ LET r == sprl[idx]
           limit == GetBatchSize(optBatchSize)
           l == RemoteList(r, limit, continueKey)
       IN  \E cbOk \in BOOLEAN :
            /\ cbOk \/ faults < MaxFaults
            /\ faults' = IF cbOk THEN faults ELSE faults + 1
            /\ calls' = Append(calls, [res |-> r.Name, limit |-> limit,
                                       cont |-> continueKey, ok |-> TRUE,
                                       next |-> l.continue, n |-> Len(l.items),
                                       cb |-> IF cbOk THEN "ok" ELSE "failed"])
            /\ sunk' = Append(sunk, [res |-> r.Name, items |-> l.items,
                                     ok |-> cbOk])
            /\ errors' = IF cbOk THEN errors
                                 ELSE Append(errors, DumpErr(r.Name))
            /\ IF ContinueAfterPage(l, cbOk)
                 THEN /\ continueKey' = NextContinueKey(l, continueKey)
                      /\ UNCHANGED <<pc, idx>>
                 ELSE /\ pc' = "next"
                      /\ idx' = idx + 1
                      /\ UNCHANGED continueKey
    /\ UNCHANGED <<inputVars, outerVars, sinkVars, ret, logWriter>>

\* line 98: every type has been gone through
DiscoverObjects_Return ==
    /\ pc = "next"
    /\ idx > Len(sprl)
    /\ ret' = Combine(errors)
    /\ pc' = "done"
    /\ UNCHANGED <<inputVars, outerVars, sinkVars, idx, continueKey, errors, logWriter, histVars>>

Next ==
    \/ DiscoverObjects_PreconditionFails
    \/ DiscoverObjects_Discover
    \/ DiscoverObjects_Skip
    \/ DiscoverObjects_EnterType
    \/ DiscoverObjects_ListFails
    \/ DiscoverObjects_ListPage
    \/ DiscoverObjects_Return

Spec == Init /\ [][Next]_vars

-----------------------------------------------------------------------------
(* DiscoverObjects with a ctx that its caller may cancel. The ctx is used at
   line 79 only, as the first argument of List: neither loop tests it. A List
   call with a cancelled ctx returns the ctx's error. *)

\* the caller cancels ctx, at any moment before DiscoverObjects returns
DiscoverObjects_Cancel ==
    /\ pc # "done"
    /\ ~ctxDone
    /\ ctxDone' = TRUE
    /\ UNCHANGED <<inputVars, driverVars, histVars, sinkVars, mainVars, gvVars,
                   down>>

\* lines 79-86 with ctx cancelled: List is called and fails; one error, break
DiscoverObjects_ListCancelled ==
    /\ pc = "list"
    /\ ctxDone
    /\ Len(calls) < MaxCalls
    /\ LET r == sprl[idx]
           limit == GetBatchSize(optBatchSize)
       IN  /\ calls' = Append(calls, [res |-> r.Name, limit |-> limit,
                                      cont |-> continueKey, ok |-> FALSE,
                                      next |-> NoCursor, n |-> 0,
                                      cb |-> "none"])
           /\ errors' = Append(errors, ListErr(r.Name))
    /\ pc' = "next"
    /\ idx' = idx + 1
    /\ UNCHANGED <<inputVars, outerVars, sinkVars, continueKey, ret, logWriter,
                   sunk, faults>>

NextCancel ==
    \/ DiscoverObjects_Cancel
    \/ DiscoverObjects_ListCancelled
    \/ DiscoverObjects_PreconditionFails
    \/ DiscoverObjects_Discover
    \/ DiscoverObjects_Skip
    \/ DiscoverObjects_EnterType
    \/ (~ctxDone /\ DiscoverObjects_ListFails)
    \/ (~ctxDone /\ DiscoverObjects_ListPage)
    \/ DiscoverObjects_Return

SpecCancel == Init /\ [][NextCancel]_vars

----------------------------------------------------------------------------
(* main.dumpObjects, discovery.go:277-334: the driver before it moved to the
   discovery package. batchSize is the flag's value as given. *)

\* lines 278-294
dumpObjects_PreconditionFails ==
    /\ pc = "start"
    /\ \E what \in {"failed to get Kubernetes config",
                     "failed to create discovery client",
                     "failed to create dynamic client",
                     "failed to get server preferred resources"} :
            ret' = <<PreErr(what)>>
    /\ pc' = "done"
    /\ UNCHANGED <<inputVars, outerVars, sinkVars, idx, continueKey, errors, logWriter, histVars>>

\* lines 278-302
dumpObjects_Discover ==
    /\ pc = "start"
    /\ logWriter' = <<Line("Discovered resources:", 0)>>
                      \o [i \in 1 .. Len(sprl) |-> Line("kind", sprl[i].Name)]
    /\ pc' = "next"
    /\ UNCHANGED <<inputVars, outerVars, sinkVars, idx, continueKey, errors, ret, histVars>>

\* lines 307-310
dumpObjects_Skip ==
    /\ pc = "next"
    /\ idx <= Len(sprl)
    /\ ~Listable(sprl[idx])
    /\ logWriter' = Append(logWriter, Line("skipping: no list verb", sprl[idx].Name))
    /\ idx' = idx + 1
    /\ UNCHANGED <<inputVars, outerVars, sinkVars, pc, continueKey, errors, ret, histVars>>

\* lines 307, 312
dumpObjects_EnterType ==
    /\ pc = "next"
    /\ idx <= Len(sprl)
    /\ Listable(sprl[idx])
    /\ continueKey' = NoCursor
    /\ pc' = "list"
    /\ UNCHANGED <<inputVars, outerVars, sinkVars, idx, errors, ret, logWriter, histVars>>

\* lines 314-321: the list call fails: a line is logged and `continue`
\* starts the next iteration of the enclosing `for {}`, the same call again
dumpObjects_ListFails ==
    /\ pc = "list"
    /\ faults < MaxFaults
    /\ Len(calls) < MaxCalls
    /\ LET r == sprl[idx]
       IN  /\ calls' = Append(calls, [res |-> r.Name, limit |-> optBatchSize,
                                      cont |-> continueKey, ok |-> FALSE,
                                      next |-> NoCursor, n |-> 0,
                                      cb |-> "none"])
           /\ logWriter' = Append(logWriter, Line("failed to list", r.Name))
    /\ faults' = faults + 1
    /\ UNCHANGED <<inputVars, outerVars, sinkVars, pc, idx, continueKey, errors, ret, sunk>>

\* lines 314-328: the list call succeeds; a failure of the dumper is logged
dumpObjects_ListPage ==
    /\ pc = "list"
    /\ Len(calls) < MaxCalls
    /\ LET r == sprl[idx]
           l == RemoteList(r, optBatchSize, continueKey)
       IN  \E cbOk \in BOOLEAN :
            /\ cbOk \/ faults < MaxFaults
            /\ faults' = IF cbOk THEN faults ELSE faults + 1
            /\ calls' = Append(calls, [res |-> r.Name, limit |-> optBatchSize,
                                       cont |-> continueKey, ok |-> TRUE,
                                       next |-> l.continue, n |-> Len(l.items),
                                       cb |-> IF cbOk THEN "ok" ELSE "failed"])
            /\ sunk' = Append(sunk, [res |-> r.Name, items |-> l.items,
                                     ok |-> cbOk])
            /\ logWriter' = IF cbOk THEN logWriter
                             ELSE Append(logWriter, Line("failed to dump", r.Name))
            /\ IF l.continue = NoCursor
                 THEN /\ pc' = "next"
                      /\ idx' = idx + 1
                      /\ UNCHANGED continueKey
                 ELSE /\ continueKey' = l.continue
                      /\ UNCHANGED <<pc, idx>>
    /\ UNCHANGED <<inputVars, outerVars, sinkVars, errors, ret>>

\* line 333: return nil
dumpObjects_Return ==
    /\ pc = "next"
    /\ idx > Len(sprl)
    /\ ret' = <<>>
    /\ pc' = "done"
    /\ UNCHANGED <<inputVars, outerVars, sinkVars, idx, continueKey, errors, logWriter, histVars>>

NextDumpObjects ==
    \/ dumpObjects_PreconditionFails
    \/ dumpObjects_Discover
    \/ dumpObjects_Skip
    \/ dumpObjects_EnterType
    \/ dumpObjects_ListFails
    \/ dumpObjects_ListPage
    \/ dumpObjects_Return

SpecDumpObjects == Init /\ [][NextDumpObjects]_vars

-----------------------------------------------------------------------------
(* The drivers against a remote on which the list calls of some resource
   types fail every time (the types in `down`), run to their end: each driver
   is one sequential program that takes its next step whenever it has one.
   Once the call history is full, a further call is no longer recorded. *)

InitDown ==
    /\ InitInputs
    /\ InitDriver
    /\ NoSink
    /\ dir = ""
    /\ confOk = TRUE
    /\ exitCode = -1
    /\ stderr = <<>>
    /\ ctxDone = FALSE
    /\ down \in SUBSET {sprl[i].Name : i \in 1 .. Len(sprl)}
    /\ NoGroupVersion

\* the type being listed is down
IsDown == pc = "list" /\ sprl[idx].Name \in down
IsUp == pc = "list" /\ sprl[idx].Name \notin down

\* dumpObjects, lines 314-319: the list call of a type that is down fails
\* and the failure is logged
dumpObjects_ListDown ==
    /\ IsDown
    /\ IF Len(calls) < MaxCalls
         THEN /\ calls' = Append(calls, [res |-> sprl[idx].Name,
                                         limit |-> optBatchSize,
                                         cont |-> continueKey, ok |-> FALSE,
                                         next |-> NoCursor, n |-> 0,
                                         cb |-> "none"])
              /\ logWriter' = Append(logWriter,
                                     Line("failed to list", sprl[idx].Name))
         ELSE UNCHANGED <<calls, logWriter>>
    /\ pc' = "retry"
    /\ UNCHANGED <<inputVars, outerVars, sinkVars, idx, continueKey, errors, ret,
                   sunk, faults>>

\* dumpObjects, line 320: `continue`, to the top of the enclosing `for {}`
dumpObjects_Continue ==
    /\ pc = "retry"
    /\ pc' = "list"
    /\ UNCHANGED <<inputVars, outerVars, sinkVars, idx, continueKey, errors, ret,
                   logWriter, histVars>>

NextDumpObjectsDown ==
    \/ dumpObjects_PreconditionFails
    \/ dumpObjects_Discover
    \/ dumpObjects_Skip
    \/ dumpObjects_EnterType
    \/ dumpObjects_ListDown
    \/ dumpObjects_Continue
    \/ (IsUp /\ dumpObjects_ListFails)
    \/ (IsUp /\ dumpObjects_ListPage)
    \/ dumpObjects_Return

SpecDumpObjectsDown ==
    InitDown /\ [][NextDumpObjectsDown]_vars /\ WF_vars(NextDumpObjectsDown)

\* DiscoverObjects, lines 79-86: the list call of a type that is down fails:
\* one error, break
DiscoverObjects_ListDown ==
    /\ IsDown
    /\ Len(calls) < MaxCalls
    /\ calls' = Append(calls, [res |-> sprl[idx].Name,
                               limit |-> GetBatchSize(optBatchSize),
                               cont |-> continueKey, ok |-> FALSE,
                               next |-> NoCursor, n |-> 0, cb |-> "none"])
    /\ errors' = Append(errors, ListErr(sprl[idx].Name))
    /\ pc' = "next"
    /\ idx' = idx + 1
    /\ UNCHANGED <<inputVars, outerVars, sinkVars, continueKey, ret, logWriter,
                   sunk, faults>>

NextDown ==
    \/ DiscoverObjects_PreconditionFails
    \/ DiscoverObjects_Discover
    \/ DiscoverObjects_Skip
    \/ DiscoverObjects_EnterType
    \/ DiscoverObjects_ListDown
    \/ (IsUp /\ DiscoverObjects_ListFails)
    \/ (IsUp /\ DiscoverObjects_ListPage)
    \/ DiscoverObjects_Return

SpecDown == InitDown /\ [][NextDown]_vars /\ WF_vars(NextDown)

----------------------------------------------------------------------------
(* The fan-out sink: dirDumper, discovery.go:345-442 *)

Obj(kind, ns, name) == [kind |-> kind, namespace |-> ns, name |-> name]

\* a namespaced collection, a cluster-scoped one, and a second kind in the
\* same namespace
Pods == [i \in 1 .. MaxObjs |-> Obj("Pod", "ns1", i)]
Nodes == <<Obj("Node", "", 1)>>
ConfigMaps == <<Obj("ConfigMap", "ns1", 1)>>

\* a page is a run of consecutive objects of one collection
Runs(c) == {SubSeq(c, a, b) : a \in 1 .. Len(c) + 1, b \in 0 .. Len(c)}
Pages == Runs(Pods) \cup Runs(Nodes) \cup Runs(ConfigMaps)

\* destination paths below d.dir (lines 398, 406, 409)
ObjectsPath(kind) == <<"objects-" \o kind>>
SplitAllPath(ns) == <<"split", ns, "__all__">>
\* mutant of SplitKindPath: the per-kind file is given the __all__ name
SplitKindPath_all(ns, kind) == <<"split", ns, "__all__">>
SplitKindPath(ns, kind) == <<"split", ns, kind>>

Kinds == {"Pod", "Node", "ConfigMap"}
Namespaces == {"ns1"}
Paths == {ObjectsPath(k) : k \in Kinds}
         \cup {SplitAllPath(n) : n \in Namespaces}
         \cup {SplitKindPath(n, k) : n \in Namespaces, k \in Kinds}

\* json.NewEncoder(buf).Encode(o): the document and a newline
Encode(o) == [json |-> o, newline |-> TRUE]
\* what a file left by an earlier run holds
Stale == [json |-> Obj("stale", "", 0), newline |-> TRUE]

EncodeErr == [op |-> "failed to encode object", path |-> <<>>]
OpenErr(path) == [op |-> "failed to open file for copying", path |-> path]
CopyErr(path) == [op |-> "failed to copy to file", path |-> path]
CloseErr(path) == [op |-> "close", path |-> path]

\* the places of one Dump call where the environment can fail: <<i, 0>> the
\* encoding of item i, <<i, j>> its j-th writeToFile
Sites(page) ==
    UNION {{<<i, 0>>, <<i, 1>>}
             \cup (IF page[i].namespace = "" THEN {} ELSE {<<i, 2>>, <<i, 3>>})
           : i \in 1 .. Len(page)}

SiteFaults(site) == IF site[2] = 0 THEN {"encode"} ELSE {"create", "write"}

\* the subsets of S with at most k elements
RECURSIVE SubsetsUpTo(_, _)
SubsetsUpTo(S, k) ==
    IF k <= 0 THEN {{}}
    ELSE LET smaller == SubsetsUpTo(S, k - 1)
         IN  smaller \cup {T \cup {x} : T \in smaller, x \in S}

\* the failures of one Dump call: at most `budget` sites, each with a failure
FaultPlans(page, budget) ==
    UNION {{f \in [S -> {"encode", "create", "write"}] :
               \A x \in S : f[x] \in SiteFaults(x)}
           : S \in SubsetsUpTo(Sites(page), budget)}

FaultAt(plan, site) == IF site \in DOMAIN plan THEN plan[site] ELSE "none"

\* mutant of Cached: the cache is never hit
Cached_never(files, path) == FALSE

\* dirDumper.file, lines 428-431: the path has a cached handle
Cached(files, path) == path \in DOMAIN files

\* dirDumper.file, lines 427-442. st: [openFiles, handles, disk, errs, moot];
\* result [st, ok, h]. os.Create truncates the file.
File(st, path, fault) ==
    IF Cached(st.openFiles, path)
    THEN [st |-> [st EXCEPT !.moot = @ \/ fault = "create"],
          ok |-> TRUE, h |-> st.openFiles[path]]
    ELSE IF fault = "create"
    THEN [st |-> st, ok |-> FALSE, h |-> 0]
    ELSE LET h == Len(st.handles) + 1
         IN  [st |-> [st EXCEPT
                        !.handles = Append(@, [path |-> path, closed |-> FALSE,
                                               closeCalls |-> 0]),
                        !.openFiles = [q \in DOMAIN @ \cup {path} |->
                                         IF q = path THEN h ELSE @[q]],
                        !.disk[path] = <<>>],
              ok |-> TRUE, h |-> h]

\* mutant of WriteToFile: the write replaces the file's content
WriteToFile_overwrite(st, path, b, fault) ==
    LET r == File(st, path, fault)
    IN  IF ~r.ok
        THEN [r.st EXCEPT !.errs = Append(@, OpenErr(path))]
        ELSE IF r.st.handles[r.h].closed
        THEN [r.st EXCEPT !.errs = Append(@, CopyErr(path)),
                          !.moot = @ \/ fault = "write"]
        ELSE IF fault = "write"
        THEN [r.st EXCEPT !.errs = Append(@, CopyErr(path))]
        ELSE [r.st EXCEPT !.disk[path] = <<b>>]

\* dirDumper.writeToFile, lines 416-425. A write to a closed *os.File fails.
WriteToFile(st, path, b, fault) ==
    LET r == File(st, path, fault)
    IN  IF ~r.ok
        THEN [r.st EXCEPT !.errs = Append(@, OpenErr(path))]
        ELSE IF r.st.handles[r.h].closed
        THEN [r.st EXCEPT !.errs = Append(@, CopyErr(path)),
                          !.moot = @ \/ fault = "write"]
        ELSE IF fault = "write"
        THEN [r.st EXCEPT !.errs = Append(@, CopyErr(path))]
        ELSE [r.st EXCEPT !.disk[path] = Append(@, b)]

\* mutant of DumpItem: the first failed write ends the item
DumpItem_stopOnError(st, o, i, plan) ==
    IF FaultAt(plan, <<i, 0>>) = "encode"
    THEN [st EXCEPT !.errs = Append(@, EncodeErr)]
    ELSE LET p == Encode(o)
             s1 == WriteToFile(st, ObjectsPath(o.kind), p, FaultAt(plan, <<i, 1>>))
         IN  IF o.namespace = "" \/ Len(s1.errs) > Len(st.errs) THEN s1
             ELSE LET s2 == WriteToFile(s1, SplitAllPath(o.namespace), p,
                                        FaultAt(plan, <<i, 2>>))
                  IN  IF Len(s2.errs) > Len(s1.errs) THEN s2
                      ELSE WriteToFile(s2, SplitKindPath(o.namespace, o.kind), p,
                                       FaultAt(plan, <<i, 3>>))

\* dirDumper.Dump, lines 391-411: one item of the page
DumpItem(st, o, i, plan) ==
    IF FaultAt(plan, <<i, 0>>) = "encode"
    THEN [st EXCEPT !.errs = Append(@, EncodeErr)]
    ELSE LET p == Encode(o)
             s1 == WriteToFile(st, ObjectsPath(o.kind), p, FaultAt(plan, <<i, 1>>))
         IN  IF o.namespace = "" THEN s1
             ELSE LET s2 == WriteToFile(s1, SplitAllPath(o.namespace), p,
                                        FaultAt(plan, <<i, 2>>))
                  IN  WriteToFile(s2, SplitKindPath(o.namespace, o.kind), p,
                                  FaultAt(plan, <<i, 3>>))

\* dirDumper.Dump, line 390: the loop over l.Items
RECURSIVE DumpItems(_, _, _, _)
DumpItems(st, items, i, plan) ==
    IF i > Len(items) THEN st
    ELSE DumpItems(DumpItem(st, items[i], i, plan), items, i + 1, plan)

\* the files an earlier run left in the directory
StalePaths == {ObjectsPath("Pod"), SplitAllPath("ns1"), ObjectsPath("Node")}

\* newDirDumper, lines 355-364: no handle yet; the directory may hold the
\* files of an earlier run
InitSink ==
    /\ openFiles = <<>>
    /\ handles = <<>>
    /\ disk = [q \in Paths |-> IF q \in StalePaths THEN <<Stale>> ELSE <<>>]
    /\ sinkLog = <<>>
    /\ sinkFaults = 0

\* no driver is in play: the sink is called directly
NoDriver ==
    /\ sprl = <<>>
    /\ optBatchSize = 0
    /\ InitDriver

\* dirDumper.Dump, lines 387-414
Dump ==
    /\ Len(sinkLog) < MaxOps
    /\ \E page \in Pages :
        \E plan \in FaultPlans(page, MaxSinkFaults - sinkFaults) :
          LET st0 == [openFiles |-> openFiles, handles |-> handles,
                      disk |-> disk, errs |-> <<>>, moot |-> FALSE]
              st == DumpItems(st0, page, 1, plan)
          IN  /\ ~st.moot
              /\ openFiles' = st.openFiles
              /\ handles' = st.handles
              /\ disk' = st.disk
              /\ sinkFaults' = sinkFaults + Cardinality(DOMAIN plan)
              /\ sinkLog' = Append(sinkLog, [op |-> "Dump", page |-> page,
                                            plan |-> plan, pre |-> disk,
                                            open |-> DOMAIN openFiles,
                                            err |-> Combine(st.errs)])
    /\ UNCHANGED <<inputVars, outerVars, driverVars, histVars>>

\* what f.Close() returns for the handles of `paths`, in some order: an
\* *os.File that is already closed returns an error, and so does one whose
\* close fails
RECURSIVE CloseErrs(_, _)
CloseErrs(paths, failing) ==
    IF paths = {} THEN <<>>
    ELSE LET q == CHOOSE x \in paths : TRUE
         IN  (IF handles[openFiles[q]].closed \/ q \in failing
              THEN <<CloseErr(q)>> ELSE <<>>)
             \o CloseErrs(paths \ {q}, failing)

\* dirDumper.Close, lines 368-376: f.Close() on every entry of d.openFiles;
\* the map is left as it is
Close ==
    /\ Len(sinkLog) < MaxOps
    /\ \E failing \in SUBSET {q \in DOMAIN openFiles :
                                ~handles[openFiles[q]].closed} :
          /\ Cardinality(failing) <= MaxSinkFaults - sinkFaults
          /\ sinkFaults' = sinkFaults + Cardinality(failing)
          /\ sinkLog' = Append(sinkLog,
                [op |-> "Close", page |-> <<>>, plan |-> <<>>, pre |-> disk,
                 open |-> DOMAIN openFiles,
                 err |-> Combine(CloseErrs(DOMAIN openFiles, failing))])
    /\ handles' = [h \in DOMAIN handles |->
                     IF \E q \in DOMAIN openFiles : openFiles[q] = h
                     THEN [handles[h] EXCEPT !.closed = TRUE,
                                             !.closeCalls = @ + 1]
                     ELSE handles[h]]
    /\ UNCHANGED <<inputVars, outerVars, driverVars, histVars, openFiles, disk>>

NextSink == Dump \/ Close

InitSinkRun == NoDriver /\ InitSink /\ NoOuter

SpecSink == InitSinkRun /\ [][NextSink]_vars

-----------------------------------------------------------------------------
(* The process: main, discovery.go:124-160, around DiscoverObjects and, with
   -dir, the directory dumper. pc = "main" before the driver is called and
   "exited" when the process has ended. stderr holds what main itself (or the
   runtime, on a panic) prints; the driver's log is kept in logWriter. *)

Dirs == {"", "out"}

\* the objects of a page of resource type r, as Dump reads them (kind and
\* namespace, lines 391-411)
KindOf(i) == IF i = 1 THEN "Pod" ELSE IF i = 2 THEN "Node" ELSE "ConfigMap"
NamespaceOf(i) == IF i = 2 THEN "" ELSE "ns1"
ItemsOf(r, items) ==
    [j \in 1 .. Len(items) |-> Obj(KindOf(r.Name), NamespaceOf(r.Name), items[j])]

InitProcess ==
    /\ optBatchSize \in BatchSizes
    /\ \E k \in 1 .. MaxTypes :
         \E vs \in [1 .. k -> VerbSets], ns \in [1 .. k -> Sizes] :
             sprl = [i \in 1 .. k |-> ResourceType(i, vs[i], ns[i])]
    /\ pc = "main"
    /\ idx = 1
    /\ continueKey = NoCursor
    /\ errors = <<>>
    /\ ret = <<>>
    /\ logWriter = <<>>
    /\ calls = <<>>
    /\ sunk = <<>>
    /\ faults = 0
    /\ InitSink
    /\ dir \in Dirs
    /\ exitCode = -1
    /\ stderr = <<>>
    /\ ctxDone = FALSE
    /\ down = {}
    /\ NoGroupVersion

InitMain == InitProcess /\ confOk \in BOOLEAN

\* lines 133-143: with -dir, MkdirAll or NewDirDumper fails: exit 1
main_SetupFails ==
    /\ pc = "main"
    /\ dir # ""
    /\ \E what \in {"failed to create directory",
                     "failed to create directory dumper"} :
          stderr' = Append(stderr, what)
    /\ exitCode' = 1
    /\ pc' = "exited"
    /\ UNCHANGED <<inputVars, sinkVars, histVars, idx, continueKey, errors, ret,
                   logWriter, dir, confOk, ctxDone, down, gvVars>>

\* lines 132-151: the sink is chosen (with -dir the dumper is created and its
\* Close deferred); GetConfig is called and its failure printed; in either
\* case main goes on to call DiscoverObjects with what GetConfig returned
main_Setup ==
    /\ pc = "main"
    /\ IF confOk
         THEN /\ pc' = "start"
              /\ UNCHANGED stderr
         ELSE /\ pc' = "noconf"
              /\ stderr' = Append(stderr, "failed to get Kubernetes config")
    /\ UNCHANGED <<inputVars, sinkVars, histVars, idx, continueKey, errors, ret,
                   logWriter, dir, confOk, exitCode, ctxDone, down, gvVars>>

\* d.Close(), lines 368-376, as run by `defer d.Close()` (line 145): every
\* cached handle is closed; what Close returns is dropped. Without -dir
\* nothing is deferred.
DeferredClose ==
    IF dir = "" THEN UNCHANGED sinkVars
    ELSE /\ \E failing \in SUBSET {q \in DOMAIN openFiles :
                                     ~handles[openFiles[q]].closed} :
              /\ Cardinality(failing) <= MaxSinkFaults - sinkFaults
              /\ sinkFaults' = sinkFaults + Cardinality(failing)
              /\ sinkLog' = Append(sinkLog,
                    [op |-> "Close", page |-> <<>>, plan |-> <<>>,
                     pre |-> disk, open |-> DOMAIN openFiles,
                     err |-> Combine(CloseErrs(DOMAIN openFiles, failing))])
         /\ handles' = [h \in DOMAIN handles |->
                          IF \E q \in DOMAIN openFiles : openFiles[q] = h
                          THEN [handles[h] EXCEPT !.closed = TRUE,
                                                  !.closeCalls = @ + 1]
                          ELSE handles[h]]
         /\ UNCHANGED <<openFiles, disk>>

\* lines 153-156 with conf = nil (GetConfig failed): DiscoverObjects hands the
\* nil config to NewDiscoveryClientForConfig (line 46), code of client-go,
\* which either returns an error, returned at line 48, or dereferences the
\* nil config and panics: the deferred Close runs, the runtime prints the
\* panic and the process exits with status 2
main_DiscoverWithoutConfig ==
    /\ pc = "noconf"
    /\ \/ /\ ret' = <<PreErr("failed to create discovery client")>>
          /\ pc' = "done"
          /\ UNCHANGED <<sinkVars, exitCode, stderr>>
       \/ /\ DeferredClose
          /\ stderr' = Append(stderr, "panic")
          /\ exitCode' = 2
          /\ pc' = "exited"
          /\ UNCHANGED ret
    /\ UNCHANGED <<inputVars, histVars, idx, continueKey, errors, logWriter,
                   dir, confOk, ctxDone, down, gvVars>>

\* DiscoverObjects, lines 79-93, with cb = d.Dump (line 146): the page is
\* dumped into the directory; Dump's error is the callback's error
main_ListPageToDir ==
    /\ pc = "list"
    /\ dir # ""
    /\ Len(calls) < MaxCalls
    /\ LET r == sprl[idx]
           limit == GetBatchSize(optBatchSize)
           l == RemoteList(r, limit, continueKey)
           page == ItemsOf(r, l.items)
       IN  \E plan \in FaultPlans(page, MaxSinkFaults - sinkFaults) :
            LET st0 == [openFiles |-> openFiles, handles |-> handles,
                        disk |-> disk, errs |-> <<>>, moot |-> FALSE]
                st == DumpItems(st0, page, 1, plan)
                cbOk == st.errs = <<>>
            IN  /\ ~st.moot
                /\ openFiles' = st.openFiles
                /\ handles' = st.handles
                /\ disk' = st.disk
                /\ sinkFaults' = sinkFaults + Cardinality(DOMAIN plan)
                /\ sinkLog' = Append(sinkLog, [op |-> "Dump", page |-> page,
                                              plan |-> plan, pre |-> disk,
                                              open |-> DOMAIN openFiles,
                                              err |-> Combine(st.errs)])
                /\ calls' = Append(calls, [res |-> r.Name, limit |-> limit,
                                           cont |-> continueKey, ok |-> TRUE,
                                           next |-> l.continue,
                                           n |-> Len(l.items),
                                           cb |-> IF cbOk THEN "ok" ELSE "failed"])
                /\ sunk' = Append(sunk, [res |-> r.Name, items |-> l.items,
                                         ok |-> cbOk])
                /\ errors' = IF cbOk THEN errors
                                     ELSE Append(errors, DumpErr(r.Name))
                /\ IF ContinueAfterPage(l, cbOk)
                     THEN /\ continueKey' = NextContinueKey(l, continueKey)
                          /\ UNCHANGED <<pc, idx>>
                     ELSE /\ pc' = "next"
                          /\ idx' = idx + 1
                          /\ UNCHANGED continueKey
    /\ UNCHANGED <<inputVars, outerVars, ret, logWriter, faults>>

\* lines 153-160: DiscoverObjects returned nil; main returns, the deferred
\* Close runs, exit status 0
main_Return ==
    /\ pc = "done"
    /\ ret = <<>>
    /\ DeferredClose
    /\ exitCode' = 0
    /\ pc' = "exited"
    /\ UNCHANGED <<inputVars, histVars, idx, continueKey, errors, ret,
                   logWriter, dir, confOk, stderr, ctxDone, down, gvVars>>

\* lines 153-158: DiscoverObjects returned an error: it is printed and
\* os.Exit(1) ends the process at once; deferred calls are not run
main_Exit1 ==
    /\ pc = "done"
    /\ ret # <<>>
    /\ stderr' = Append(stderr, "failed to dump some or all objects")
    /\ exitCode' = 1
    /\ pc' = "exited"
    /\ UNCHANGED <<inputVars, sinkVars, histVars, idx, continueKey, errors, ret,
                   logWriter, dir, confOk, ctxDone, down, gvVars>>

NextMain ==
    \/ main_SetupFails
    \/ main_Setup
    \/ main_DiscoverWithoutConfig
    \/ DiscoverObjects_PreconditionFails
    \/ DiscoverObjects_Discover
    \/ DiscoverObjects_Skip
    \/ DiscoverObjects_EnterType
    \/ DiscoverObjects_ListFails
    \/ (dir = "" /\ DiscoverObjects_ListPage)
    \/ main_ListPageToDir
    \/ DiscoverObjects_Return
    \/ main_Return
    \/ main_Exit1

SpecMain == InitMain /\ [][NextMain]_vars

-----------------------------------------------------------------------------
(* The older process: main, discovery.go:250-275, around dumpObjects. Its
   set-up of the sink (lines 259-271) is that of the later main. *)

InitMainOld == InitProcess /\ confOk = TRUE

\* lines 258-272: the sink is chosen; dumpObjects is called next (it gets the
\* config itself, line 278)
mainOld_Setup ==
    /\ pc = "main"
    /\ pc' = "start"
    /\ UNCHANGED <<inputVars, sinkVars, histVars, idx, continueKey, errors, ret,
                   logWriter, outerVars>>

\* dumpObjects, lines 314-328, with df = d.Dump (line 271): the page is
\* dumped into the directory; Dump's error is logged
mainOld_ListPageToDir ==
    /\ pc = "list"
    /\ dir # ""
    /\ Len(calls) < MaxCalls
    /\ LET r == sprl[idx]
           l == RemoteList(r, optBatchSize, continueKey)
           page == ItemsOf(r, l.items)
       IN  \E plan \in FaultPlans(page, MaxSinkFaults - sinkFaults) :
            LET st0 == [openFiles |-> openFiles, handles |-> handles,
                        disk |-> disk, errs |-> <<>>, moot |-> FALSE]
                st == DumpItems(st0, page, 1, plan)
                cbOk == st.errs = <<>>
            IN  /\ ~st.moot
                /\ openFiles' = st.openFiles
                /\ handles' = st.handles
                /\ disk' = st.disk
                /\ sinkFaults' = sinkFaults + Cardinality(DOMAIN plan)
                /\ sinkLog' = Append(sinkLog, [op |-> "Dump", page |-> page,
                                              plan |-> plan, pre |-> disk,
                                              open |-> DOMAIN openFiles,
                                              err |-> Combine(st.errs)])
                /\ calls' = Append(calls, [res |-> r.Name,
                                           limit |-> optBatchSize,
                                           cont |-> continueKey, ok |-> TRUE,
                                           next |-> l.continue,
                                           n |-> Len(l.items),
                                           cb |-> IF cbOk THEN "ok" ELSE "failed"])
                /\ sunk' = Append(sunk, [res |-> r.Name, items |-> l.items,
                                         ok |-> cbOk])
                /\ logWriter' = IF cbOk THEN logWriter
                                 ELSE Append(logWriter,
                                             Line("failed to dump", r.Name))
                /\ IF l.continue = NoCursor
                     THEN /\ pc' = "next"
                          /\ idx' = idx + 1
                          /\ UNCHANGED continueKey
                     ELSE /\ continueKey' = l.continue
                          /\ UNCHANGED <<pc, idx>>
    /\ UNCHANGED <<inputVars, outerVars, errors, ret, faults>>

\* lines 274-275: dumpObjects has returned; what it returned is dropped, main
\* returns, the deferred Close runs, exit status 0
mainOld_Return ==
    /\ pc = "done"
    /\ DeferredClose
    /\ exitCode' = 0
    /\ pc' = "exited"
    /\ UNCHANGED <<inputVars, histVars, idx, continueKey, errors, ret,
                   logWriter, dir, confOk, stderr, ctxDone, down, gvVars>>

NextMainOld ==
    \/ main_SetupFails
    \/ mainOld_Setup
    \/ dumpObjects_PreconditionFails
    \/ dumpObjects_Discover
    \/ dumpObjects_Skip
    \/ dumpObjects_EnterType
    \/ dumpObjects_ListFails
    \/ (dir = "" /\ dumpObjects_ListPage)
    \/ mainOld_ListPageToDir
    \/ dumpObjects_Return
    \/ mainOld_Return

SpecMainOld == InitMainOld /\ [][NextMainOld]_vars

-----------------------------------------------------------------------------
(* groupVersionFromString, lines 101-107. A string is a sequence of
   characters; "/" is the separator. *)

MaxLen == 4
Chars == {"a", "v", "/"}
Strings == UNION {[1 .. n -> Chars] : n \in 0 .. MaxLen}

\* strings.Split(s, "/"): the segments between the separators, in order; a
\* string without separator (the empty string too) is its own single segment
RECURSIVE Split(_)
Split(s) ==
    IF s = <<>> THEN << <<>> >>
    ELSE LET rest == Split(Tail(s))
         IN  IF Head(s) = "/" THEN << <<>> >> \o rest
             ELSE << <<Head(s)>> \o Head(rest) >> \o Tail(rest)

\* lines 101-107
groupVersionFromString(s) ==
    LET parts == Split(s)
    IN  IF Len(parts) = 1 THEN [Group |-> <<>>, Version |-> parts[1]]
        ELSE [Group |-> parts[1], Version |-> parts[2]]

InitGroupVersion ==
    /\ NoDriver
    /\ NoSink
    /\ NoMain
    /\ gvIn \in Strings
    /\ gvOut = <<>>

\* one call; the function has one result, a schema.GroupVersion, and no error
\* result, and it does not panic: what it returns is not flagged
GroupVersionFromString ==
    /\ gvOut = <<>>
    /\ gvOut' = <<[gv |-> groupVersionFromString(gvIn), flagged |-> FALSE]>>
    /\ UNCHANGED <<inputVars, driverVars, histVars, sinkVars, dir, confOk,
                   exitCode, stderr, ctxDone, down, gvIn>>

SpecGroupVersion == InitGroupVersion /\ [][GroupVersionFromString]_vars

----------------------------------------------------------------------------
(* Properties of the drivers *)

\* the capability query succeeded in this run
Discovered == pc # "start" /\ (pc = "done" => logWriter # <<>>)

CallsOf(res) == SelectSeq(calls, LAMBDA c : c.res = res)
SunkOf(res) == SelectSeq(sunk, LAMBDA e : e.res = res)
Count(seq, Test(_)) == Len(SelectSeq(seq, Test))

RECURSIVE Flatten(_)
Flatten(pages) ==
    IF pages = <<>> THEN <<>> ELSE Head(pages).items \o Flatten(Tail(pages))

\* ceil(n / b), and one call for an empty collection
PagesNeeded(n, b) == IF n = 0 THEN 1 ELSE (n + b - 1) \div b

NoListFailure(res) == \A k \in 1 .. Len(calls) : calls[k].res = res => calls[k].ok

\* C1: with a batch size B >= 1 and a remote that honours limit and cursor,
\* the pages handed to the sink for a type are, concatenated in call order,
\* always a duplicate-free prefix 1..k of the type's collection; no call for
\* a type follows a response with an empty cursor; and once the loop of a type
\* whose list calls never failed has ended, exactly ceil(N/B) calls were
\* issued (one when N = 0), each with limit B, every page but the last holds
\* B objects, only the last response has an empty cursor, the concatenation is
\* the whole collection, and a run without any failure returns nil.
PaginationComplete ==
    LET B == GetBatchSize(optBatchSize)
    IN  B >= 1 =>
        /\ \A i \in 1 .. Len(sprl) :
              LET cs == CallsOf(i)
                  got == Flatten(SunkOf(i))
                  N == sprl[i].N
              IN  /\ got = [k \in 1 .. Len(got) |-> k]
                  /\ Len(got) <= N
                  /\ \A k \in 1 .. Len(cs) - 1 : cs[k].ok => cs[k].next # NoCursor
                  /\ (idx > i /\ Listable(sprl[i]) /\ NoListFailure(i)) =>
                        /\ Len(cs) = PagesNeeded(N, B)
                        /\ got = [k \in 1 .. N |-> k]
                        /\ cs[Len(cs)].next = NoCursor
                        /\ \A k \in 1 .. Len(cs) :
                              /\ cs[k].limit = B
                              /\ cs[k].n = Min(B, N - (k - 1) * B)
        /\ (pc = "done" /\ Discovered /\ faults = 0) => ret = <<>>

\* C1 witness: 1200 objects at batch size 500 were drained in 3 calls of
\* 500, 500 and 200 objects and the run returned nil
PaginationComplete_witness ==
    /\ pc = "done"
    /\ sprl[1].N = LargeN
    /\ GetBatchSize(optBatchSize) = DefaultBatchSize
    /\ Len(calls) = 3
    /\ <<calls[1].n, calls[2].n, calls[3].n>> = <<500, 500, 200>>
    /\ ret = <<>>

\* C2: for a type without the list verb no list call is issued, the sink is
\* not invoked, no error is recorded or returned, and the diagnostic stream
\* holds exactly one skip notice for it once the loop has passed it (none
\* before)
NonListableSkipped ==
    \A i \in 1 .. Len(sprl) :
        ~("list" \in sprl[i].Verbs) =>
            /\ CallsOf(i) = <<>>
            /\ SunkOf(i) = <<>>
            /\ \A k \in 1 .. Len(errors) : errors[k].res # i
            /\ \A k \in 1 .. Len(ret) : ret[k].res # i
            /\ Count(logWriter, LAMBDA ln : ln = Line("skipping: no list verb", i))
                 = IF Discovered /\ idx > i THEN 1 ELSE 0

\* C2 witness: the run has ended, it skipped a type that has objects and
\* listed another one
NonListableSkipped_witness ==
    /\ pc = "done"
    /\ \E i \in 1 .. Len(sprl) :
          ~("list" \in sprl[i].Verbs) /\ sprl[i].N > 0 /\ idx > i
    /\ calls # <<>>

\* the continue keys of the list calls a type gets when nothing fails
RECURSIVE CursorChain(_, _, _, _)
CursorChain(r, limit, cont, fuel) ==
    LET l == RemoteList(r, limit, cont)
    IN  IF l.continue = NoCursor \/ fuel = 0 THEN <<cont>>
        ELSE <<cont>> \o CursorChain(r, limit, l.continue, fuel - 1)

\* C4: a page whose sink call failed and whose cursor is non-empty is
\* followed by the list call of the same type with that cursor (or that call
\* is the driver's next step), and the list calls issued for a type whose
\* list calls did not fail are those of the run without sink failures,
\* whatever the sink returned
SinkFailureKeepsPaging ==
    /\ \A k \in 1 .. Len(calls) :
          (calls[k].cb = "failed" /\ calls[k].next # NoCursor) =>
              IF k < Len(calls)
              THEN calls[k + 1].res = calls[k].res
                   /\ calls[k + 1].cont = calls[k].next
              ELSE pc = "list" /\ sprl[idx].Name = calls[k].res
                   /\ continueKey = calls[k].next
    /\ \A i \in 1 .. Len(sprl) :
          (idx > i /\ Listable(sprl[i]) /\ NoListFailure(i)) =>
              LET cs == CallsOf(i)
              IN  [k \in 1 .. Len(cs) |-> cs[k].cont]
                    = CursorChain(sprl[i], GetBatchSize(optBatchSize), NoCursor,
                                  sprl[i].N)

\* C4 witness: the sink failed on a page with a non-empty cursor, the next
\* page of that type was listed, and the run has ended
SinkFailureKeepsPaging_witness ==
    /\ pc = "done"
    /\ \E k \in 1 .. Len(calls) - 1 :
          /\ calls[k].cb = "failed"
          /\ calls[k].next # NoCursor
          /\ calls[k + 1].ok

\* C3: a failed list call is recorded exactly once (in the error set or, for
\* the driver that only logs, on the diagnostic stream), no later list call
\* goes to the same type, and a run that ends has attempted every listable
\* type
ListFailureAbandonsType ==
    /\ \A i \in 1 .. Len(sprl) :
          Count(calls, LAMBDA c : c.res = i /\ ~c.ok)
            = Count(errors, LAMBDA e : e = ListErr(i))
              + Count(logWriter, LAMBDA ln : ln = Line("failed to list", i))
    /\ \A j \in 1 .. Len(calls) : \A k \in 1 .. Len(calls) :
          (j < k /\ ~calls[j].ok) => calls[k].res # calls[j].res
    /\ (pc = "done" /\ Discovered) =>
          \A i \in 1 .. Len(sprl) : Listable(sprl[i]) => CallsOf(i) # <<>>

\* C3 for DiscoverObjects, reached: a list call failed on the first type and
\* the second type was listed
ListFailureAbandonsType_witness ==
    /\ pc = "done"
    /\ Len(calls) >= 2
    /\ ~calls[1].ok
    /\ calls[2].ok

\* C5: once the capability query has succeeded the driver returns only after
\* every type was gone through; the result is nil iff no list call and no
\* sink invocation failed, and it holds one entry per failed list call and one
\* per failed sink invocation, and nothing else
ReturnsEveryFailure ==
    (pc = "done" /\ Discovered) =>
        /\ idx = Len(sprl) + 1
        /\ (ret = <<>>) <=> (\A k \in 1 .. Len(calls) :
                                calls[k].ok /\ calls[k].cb # "failed")
        /\ \A i \in 1 .. Len(sprl) :
              /\ Count(ret, LAMBDA e : e = ListErr(i))
                   = Count(calls, LAMBDA c : c.res = i /\ ~c.ok)
              /\ Count(ret, LAMBDA e : e = DumpErr(i))
                   = Count(sunk, LAMBDA e : e.res = i /\ ~e.ok)
        /\ Len(ret) = Count(calls, LAMBDA c : ~c.ok)
                        + Count(sunk, LAMBDA e : ~e.ok)

\* what main printed
Printed(what) == \E i \in 1 .. Len(stderr) : stderr[i] = what

\* a precondition of the run failed: the output directory, the config, a
\* client or the capability query
PreconditionFailed ==
    \/ \E i \in 1 .. Len(ret) : ret[i].res = 0
    \/ Printed("failed to create directory")
    \/ Printed("failed to create directory dumper")
    \/ Printed("failed to get Kubernetes config")

\* the run produced a failure: a failed list call, a failed sink invocation
\* or a precondition failure
RunFailed ==
    \/ \E k \in 1 .. Len(calls) : ~calls[k].ok
    \/ \E k \in 1 .. Len(sunk) : ~sunk[k].ok
    \/ PreconditionFailed

\* C11: the process exits with a non-zero status exactly when the run
\* produced a failure
ExitStatusReflectsFailures ==
    pc = "exited" => (exitCode # 0 <=> RunFailed)

\* C12: a precondition failure ends the run at once: main does not go on
\* after a failed GetConfig, and a run in which a precondition failed has
\* issued no list call, has not invoked the sink, and has reported the
\* failure once
PreconditionAborts ==
    /\ Printed("failed to get Kubernetes config") => pc = "exited"
    /\ (pc = "exited" /\ PreconditionFailed) =>
          /\ calls = <<>>
          /\ sunk = <<>>
          /\ sinkLog = <<>> \/ \A k \in 1 .. Len(sinkLog) : sinkLog[k].op # "Dump"
          /\ Len(stderr) = 1

\* C12 for the preconditions DiscoverObjects tests itself (lines 46-58), the
\* config being there
PreconditionAbortsWithConfig ==
    (confOk /\ pc = "exited" /\ PreconditionFailed) =>
        /\ calls = <<>>
        /\ sunk = <<>>
        /\ Len(stderr) = 1

\* C13: every list call carries a positive limit: the configured batch size
\* when it is positive, 500 when it is unset or zero
PositiveLimit ==
    \A k \in 1 .. Len(calls) :
        /\ calls[k].limit >= 1
        /\ calls[k].limit = IF optBatchSize = 0 THEN 500 ELSE optBatchSize

\* C13 on the configurations the specification allows (a batch size >= 0),
\* where the code satisfies it
PositiveLimitWhenNotNegative ==
    optBatchSize >= 0 =>
        \A k \in 1 .. Len(calls) :
            /\ calls[k].limit >= 1
            /\ calls[k].limit = IF optBatchSize = 0 THEN 500 ELSE optBatchSize

\* positions of the separator in s
Separators(s) == {p \in 1 .. Len(s) : s[p] = "/"}

\* C14: a string without separator yields ("", S); a string X/Y with exactly
\* one separator yields (X, Y); a string with more separators is flagged and
\* not turned into a pair
GroupVersionParsed ==
    gvOut # <<>> =>
        LET seps == Separators(gvIn)
            out == gvOut[1]
        IN  /\ seps = {} =>
                  ~out.flagged /\ out.gv = [Group |-> <<>>, Version |-> gvIn]
            /\ Cardinality(seps) = 1 =>
                  LET p == CHOOSE q \in seps : TRUE
                  IN  /\ ~out.flagged
                      /\ out.gv = [Group |-> SubSeq(gvIn, 1, p - 1),
                                   Version |-> SubSeq(gvIn, p + 1, Len(gvIn))]
            /\ Cardinality(seps) > 1 => out.flagged

\* C14 without its last clause: the two recognised shapes
GroupVersionOfRecognisedShapes ==
    gvOut # <<>> =>
        LET seps == Separators(gvIn)
            out == gvOut[1]
        IN  /\ seps = {} =>
                  ~out.flagged /\ out.gv = [Group |-> <<>>, Version |-> gvIn]
            /\ Cardinality(seps) = 1 =>
                  LET p == CHOOSE q \in seps : TRUE
                  IN  /\ ~out.flagged
                      /\ out.gv = [Group |-> SubSeq(gvIn, 1, p - 1),
                                   Version |-> SubSeq(gvIn, p + 1, Len(gvIn))]

\* C20: whatever list calls and sink calls fail, also when the list calls of
\* a type fail every time, the driver eventually returns to its caller
Terminates == <>(pc = "done")

\* C19: once ctx is cancelled the driver issues no further list call, for
\* the current type or a later one, and what it returns is the errors it had
\* accumulated by then
StopsOnCancel ==
    [][ctxDone => /\ calls' = calls
                  /\ pc \in {"next", "list"} =>
                        /\ errors' = errors
                        /\ pc' = "done" => ret' = Combine(errors)]_vars

\* what the code does on cancellation: nothing is delivered to the callback
\* after it, and every list call issued after it fails
NoPageAfterCancel ==
    [][ctxDone => /\ sunk' = sunk
                  /\ \A k \in (Len(calls) + 1) .. Len(calls') : ~calls'[k].ok]_vars

\* C18: the first list call of a type carries the empty cursor, every later
\* call of the type carries the non-empty cursor that the call just before it,
\* a successful call of the same type, returned; no call carries a cursor of
\* another type, and neither does the call the driver is about to issue
CursorDiscipline ==
    /\ \A k \in 1 .. Len(calls) :
          LET c == calls[k]
              first == \A j \in 1 .. (k - 1) : calls[j].res # c.res
          IN  /\ IF first THEN c.cont = NoCursor
                 ELSE /\ calls[k - 1].res = c.res
                      /\ calls[k - 1].ok
                      /\ calls[k - 1].next # NoCursor
                      /\ c.cont = calls[k - 1].next
              /\ c.cont # NoCursor => c.cont.res = c.res
    /\ pc = "list" =>
          LET mine == CallsOf(sprl[idx].Name)
          IN  continueKey = IF mine = <<>> THEN NoCursor
                            ELSE mine[Len(mine)].next

\* C18's hard case: a type ends on a failed list call that carried a
\* non-empty cursor, and the next type has issued its first call
CursorDiscipline_witness ==
    \E k \in 1 .. (Len(calls) - 1) :
        /\ ~calls[k].ok
        /\ calls[k].cont # NoCursor
        /\ calls[k + 1].res # calls[k].res
        /\ calls[k + 1].ok
        /\ calls[k + 1].next # NoCursor

\* C5 for DiscoverObjects, reached: a list call and a sink invocation failed
ReturnsEveryFailure_witness ==
    /\ pc = "done"
    /\ \E k \in 1 .. Len(calls) : ~calls[k].ok
    /\ \E k \in 1 .. Len(sunk) : ~sunk[k].ok

----------------------------------------------------------------------------
(* Properties of the fan-out sink *)

\* the call made last, whose effect the state shows (disk is the disk after
\* it); every call is the last one in the state it leads to
LastDump == {k \in {Len(sinkLog)} : k > 0 /\ sinkLog[k].op = "Dump"}
CloseCalls == {k \in 1 .. Len(sinkLog) : sinkLog[k].op = "Close"}

\* the destinations of a record: objects-K, and for a namespaced record
\* split/NS/__all__ and split/NS/K
Destinations(o) ==
    IF o.namespace = "" THEN {<<"objects-" \o o.kind>>}
    ELSE {<<"objects-" \o o.kind>>, <<"split", o.namespace, "__all__">>,
          <<"split", o.namespace, o.kind>>}

\* the serialized records of a page that go to path q, in page order
RECURSIVE Routed(_, _)
Routed(page, q) ==
    IF page = <<>> THEN <<>>
    ELSE (IF q \in Destinations(Head(page)) THEN <<Encode(Head(page))>> ELSE <<>>)
         \o Routed(Tail(page), q)

\* what a destination holds before a Dump appends to it: a path without a
\* cached handle is created empty by the first write to it
BaseOf(e, q) ==
    IF q \in e.open \/ Routed(e.page, q) = <<>> THEN e.pre[q] ELSE <<>>

Occurs(x, seq) == \E n \in 1 .. Len(seq) : seq[n] = x

\* C6: after a Dump call that reported no failure, every destination holds
\* what it held before followed by the serialized records routed to it: each
\* namespaced record of kind K in NS went to exactly objects-K,
\* split/NS/__all__ and split/NS/K, each cluster-scoped record to exactly
\* objects-K; and whatever a Dump call reports, a path that is no destination
\* of a record of the page is left as it was
FanOutComplete ==
    \A k \in LastDump :
        LET e == sinkLog[k]
            post == disk
        IN  /\ \A q \in Paths : Routed(e.page, q) = <<>> => post[q] = e.pre[q]
            /\ e.err = <<>> =>
                  /\ \A q \in Paths : post[q] = BaseOf(e, q) \o Routed(e.page, q)
                  /\ \A i \in 1 .. Len(e.page) :
                        LET got == {q \in Paths :
                                      Occurs(Encode(e.page[i]),
                                             SubSeq(post[q], Len(BaseOf(e, q)) + 1,
                                                    Len(post[q])))}
                        IN  /\ got = Destinations(e.page[i])
                            /\ Cardinality(got)
                                 = IF e.page[i].namespace = "" THEN 1 ELSE 3

\* C6 witness: one Dump of a page with a pod of ns1 reported no failure
\* and three files hold the pod; one Dump of the node page left it in one
FanOutComplete_witness ==
    /\ Len(sinkLog) = 1
    /\ sinkLog[1].op = "Dump"
    /\ sinkLog[1].err = <<>>
    /\ \/ /\ sinkLog[1].page = <<Obj("Pod", "ns1", 1)>>
          /\ {q \in Paths : disk[q] = <<Encode(Obj("Pod", "ns1", 1))>>}
               = {ObjectsPath("Pod"), SplitAllPath("ns1"),
                  SplitKindPath("ns1", "Pod")}
       \/ /\ sinkLog[1].page = Nodes
          /\ {q \in Paths : disk[q] = <<Encode(Nodes[1])>>}
               = {ObjectsPath("Node")}

\* the paths whose cached handle was closed by a Close before the k-th call
ClosedBefore(k) ==
    UNION {sinkLog[j].open : j \in {c \in CloseCalls : c < k}}

\* the j-th destination written for a record
DestinationAt(o, j) ==
    CASE j = 1 -> <<"objects-" \o o.kind>>
      [] j = 2 -> <<"split", o.namespace, "__all__">>
      [] j = 3 -> <<"split", o.namespace, o.kind>>

\* the j-th write of the i-th record of a Dump call is attempted: the record
\* has a j-th destination and its encoding did not fail
Attempted(e, i, j) ==
    /\ j = 1 \/ (j \in {2, 3} /\ e.page[i].namespace # "")
    /\ FaultAt(e.plan, <<i, 0>>) # "encode"

\* what the attempted writes that did not fail add to path q, in page order
RECURSIVE Written(_, _, _)
Written(e, q, i) ==
    IF i > Len(e.page) THEN <<>>
    ELSE (IF \E j \in 1 .. 3 :
                /\ Attempted(e, i, j)
                /\ DestinationAt(e.page[i], j) = q
                /\ FaultAt(e.plan, <<i, j>>) = "none"
          THEN <<Encode(e.page[i])>> ELSE <<>>)
         \o Written(e, q, i + 1)

\* a path without a cached handle is created, empty, by the first attempted
\* write to it whose creation does not fail
BaseAfter(e, q) ==
    IF q \notin e.open
       /\ \E i \in 1 .. Len(e.page) : \E j \in 1 .. 3 :
             /\ Attempted(e, i, j)
             /\ DestinationAt(e.page[i], j) = q
             /\ FaultAt(e.plan, <<i, j>>) # "create"
    THEN <<>> ELSE e.pre[q]

\* C7: the error a Dump call returns holds exactly one entry per failed
\* encode, failed handle creation and failed write (a write to a handle that
\* Close has closed fails), and every other write of the page is done: the
\* same record's other destinations and the records after it hold the record
ErrorIsolation ==
    \A k \in LastDump :
        LET e == sinkLog[k]
            closedPaths == ClosedBefore(k)
            failed == {x \in (1 .. Len(e.page)) \X (1 .. 3) :
                         /\ Attempted(e, x[1], x[2])
                         /\ \/ FaultAt(e.plan, x) # "none"
                            \/ DestinationAt(e.page[x[1]], x[2]) \in closedPaths}
            unencoded == {x \in DOMAIN e.plan : e.plan[x] = "encode"}
        IN  /\ Len(e.err) = Cardinality(failed) + Cardinality(unencoded)
            /\ \A x \in failed :
                  \E n \in 1 .. Len(e.err) :
                      e.err[n].path = DestinationAt(e.page[x[1]], x[2])
            /\ \A q \in Paths :
                  disk[q] = BaseAfter(e, q)
                            \o (IF q \in closedPaths THEN <<>> ELSE Written(e, q, 1))

\* C7 witness: of the writes of one Dump of the two pods only the first one
\* to split/ns1/Pod failed: the error holds one failure, objects-Pod and
\* split/ns1/__all__ hold both pods and split/ns1/Pod holds the second
ErrorIsolation_witness ==
    /\ Len(sinkLog) = 1
    /\ sinkLog[1].op = "Dump"
    /\ sinkLog[1].page = <<Obj("Pod", "ns1", 1), Obj("Pod", "ns1", 2)>>
    /\ DOMAIN sinkLog[1].plan = {<<1, 3>>}
    /\ Len(sinkLog[1].err) = 1
    /\ sinkLog[1].err[1].path = SplitKindPath("ns1", "Pod")
    /\ disk[ObjectsPath("Pod")]
         = <<Encode(Obj("Pod", "ns1", 1)), Encode(Obj("Pod", "ns1", 2))>>
    /\ disk[SplitAllPath("ns1")] = disk[ObjectsPath("Pod")]
    /\ disk[SplitKindPath("ns1", "Pod")] = <<Encode(Obj("Pod", "ns1", 2))>>

\* C8: the sink never obtains a second handle for a path: every handle it
\* ever created is for a path of its own and is the one cached for that path
OneHandlePerPath ==
    /\ \A h \in DOMAIN handles : \A g \in DOMAIN handles :
          handles[h].path = handles[g].path => h = g
    /\ \A q \in DOMAIN openFiles :
          /\ openFiles[q] \in DOMAIN handles
          /\ handles[openFiles[q]].path = q
    /\ Cardinality(DOMAIN openFiles) = Len(handles)

\* C8 witness: two pages with a pod each were dumped one after the other
\* without failure; the three files were created once and hold both pods
OneHandlePerPath_witness ==
    /\ Len(sinkLog) = 2
    /\ \A k \in 1 .. 2 : sinkLog[k].op = "Dump" /\ sinkLog[k].err = <<>>
    /\ sinkLog[1].page = <<Obj("Pod", "ns1", 1)>>
    /\ sinkLog[2].page = <<Obj("Pod", "ns1", 2)>>
    /\ Len(handles) = 3
    /\ \A q \in DOMAIN openFiles :
          disk[q] = <<Encode(Obj("Pod", "ns1", 1)), Encode(Obj("Pod", "ns1", 2))>>

\* C9: over any sequence of Dump and Close calls no handle is released more
\* than once, and once Close has been called every handle the sink created
\* has been released exactly once
ReleasedExactlyOnce ==
    /\ \A h \in DOMAIN handles : handles[h].closeCalls <= 1
    /\ CloseCalls # {} => \A h \in DOMAIN handles : handles[h].closeCalls = 1

\* C9 restricted to the use the code documents (no call after Close), which
\* the code satisfies
ReleasedOnceWhenCloseIsLast ==
    (CloseCalls = {Len(sinkLog)}) =>
        \A h \in DOMAIN handles : handles[h].closeCalls = 1 /\ handles[h].closed

\* the directory dumper was created (lines 139-146)
SinkCreated ==
    /\ dir # ""
    /\ pc # "main"
    /\ ~Printed("failed to create directory")
    /\ ~Printed("failed to create directory dumper")

\* C16: with -dir, however the process ends once the dumper was created,
\* Close has run before the exit and no handle is left open
ClosedBeforeExit ==
    (pc = "exited" /\ SinkCreated) =>
        /\ CloseCalls # {}
        /\ \A h \in DOMAIN handles : handles[h].closed

RECURSIVE DumpFaults(_)
\* the failures injected into the Dump calls among the first k sink calls
DumpFaults(k) ==
    IF k = 0 THEN 0
    ELSE DumpFaults(k - 1)
         + (IF sinkLog[k].op = "Dump" THEN Cardinality(DOMAIN sinkLog[k].plan)
            ELSE 0)

\* the Close that ended the run tried every cached handle and returned one
\* error per release that failed
CloseCollectsFailures ==
    \A k \in CloseCalls :
        /\ \A q \in sinkLog[k].open : handles[openFiles[q]].closeCalls >= 1
        /\ Len(sinkLog[k].err) = sinkFaults - DumpFaults(Len(sinkLog))

\* C17: Close tries every cached handle, returns one error per release that
\* failed, and a failure it returns reaches the outcome of the run: the exit
\* status is not 0 or the failure is printed
ReleaseFailuresReported ==
    pc = "exited" =>
        \A k \in CloseCalls :
            /\ \A q \in sinkLog[k].open : handles[openFiles[q]].closeCalls >= 1
            /\ Len(sinkLog[k].err) = sinkFaults - DumpFaults(Len(sinkLog))
            /\ sinkLog[k].err # <<>> =>
                  exitCode # 0 \/ Printed("failed to close")

\* C15: Close is terminal: a Dump that comes after a Close opens no handle and
\* writes to no destination, so the cache and the destinations are as they
\* were before the call; and a Dump never removes an entry from the cache
ClosedIsTerminal ==
    \A k \in LastDump :
        /\ sinkLog[k].open \subseteq DOMAIN openFiles
        /\ (\E c \in CloseCalls : c < k) =>
              /\ DOMAIN openFiles = sinkLog[k].open
              /\ disk = sinkLog[k].pre

\* C15 before Close: the cache only grows
CacheOnlyGrows ==
    \A k \in LastDump : sinkLog[k].open \subseteq DOMAIN openFiles

\* C10: after the same page was dumped twice, without failure, into a fresh
\* sink, every destination of the page holds twice what it held after the
\* first Dump, and every other path is as it was
AppendsTwoCopies ==
    (/\ Len(sinkLog) = 2
     /\ \A k \in 1 .. 2 : sinkLog[k].op = "Dump" /\ sinkLog[k].err = <<>>
     /\ sinkLog[1].page = sinkLog[2].page) =>
        \A q \in Paths :
            IF \E i \in 1 .. Len(sinkLog[1].page) :
                  q \in Destinations(sinkLog[1].page[i])
            THEN /\ sinkLog[2].pre[q] = Routed(sinkLog[1].page, q)
                 /\ disk[q] = sinkLog[2].pre[q] \o sinkLog[2].pre[q]
            ELSE disk[q] = sinkLog[1].pre[q]

\* C10 witness: the page of the two pods was dumped twice into a fresh sink
\* without failure and objects-Pod holds pod 1, pod 2, pod 1, pod 2
AppendsTwoCopies_witness ==
    /\ Len(sinkLog) = 2
    /\ \A k \in 1 .. 2 : sinkLog[k].op = "Dump" /\ sinkLog[k].err = <<>>
    /\ sinkLog[1].page = <<Obj("Pod", "ns1", 1), Obj("Pod", "ns1", 2)>>
    /\ sinkLog[2].page = sinkLog[1].page
    /\ disk[ObjectsPath("Pod")]
         = <<Encode(Obj("Pod", "ns1", 1)), Encode(Obj("Pod", "ns1", 2)),
             Encode(Obj("Pod", "ns1", 1)), Encode(Obj("Pod", "ns1", 2))>>

====
